---- MODULE Spec2Model ----
(***************************************************************************)
(* Model of the swarm scheduling sensor of llm-observatory                 *)
(* (src/dagster_definitions/sensors.py, resources.py).                     *)
(*                                                                         *)
(* Python strings are sequences of one-character strings, so that          *)
(* splitting, prefix tests, int() parsing and lexical comparison are       *)
(* modelled by what they do.  A Python call that may raise returns a       *)
(* record [exc, val]: exc = "none" and the value, or the exception name.   *)
(***************************************************************************)
EXTENDS Integers, Sequences, FiniteSets, TLC

\* ------------------------------------------------------------------------
\* Bounds of the model
\* ------------------------------------------------------------------------
\* Evaluations of the sensor in a behaviour.
MaxCycles == 2

\* Swarms in the list get_swarms returns.
MaxSwarms == 3

\* Swarms in the list of an evaluation whose cursor the sensor has not
\* written.
MaxRawSwarms == 1

\* ------------------------------------------------------------------------
\* Python values
\* ------------------------------------------------------------------------
\* Python None where a string is expected (no character string equals it).
None == <<"None">>

Ret(v) == [exc |-> "none", val |-> v]

RaiseBool(e) == [exc |-> e, val |-> FALSE]

RaiseInt(e) == [exc |-> e, val |-> 0]

\* ------------------------------------------------------------------------
\* Strings
\* ------------------------------------------------------------------------
Digits == <<"0", "1", "2", "3", "4", "5", "6", "7", "8", "9">>

IsDigit(c) == \E i \in 1..10 : Digits[i] = c

DigitVal(c) == (CHOOSE i \in 1..10 : Digits[i] = c) - 1

\* Code point order of the characters the model uses (ASCII).
Ord(c) ==
    CASE c = " " -> 32
      [] c = "*" -> 42
      [] c = "," -> 44
      [] c = "-" -> 45
      [] c = "/" -> 47
      [] IsDigit(c) -> 48 + DigitVal(c)
      [] c = ":" -> 58
      [] c = "a" -> 97
      [] c = "b" -> 98
      [] c = "c" -> 99
      [] c = "d" -> 100
      [] c = "e" -> 101
      [] OTHER -> 122

\* s > t on Python strings: lexicographic by code point, a proper prefix is
\* smaller.
RECURSIVE StrGreater(_, _)
StrGreater(s, t) ==
    IF s = <<>> THEN FALSE
    ELSE IF t = <<>> THEN TRUE
    ELSE IF Ord(s[1]) # Ord(t[1]) THEN Ord(s[1]) > Ord(t[1])
    ELSE StrGreater(Tail(s), Tail(t))

\* s.startswith(p)
StartsWith(s, p) == Len(s) >= Len(p) /\ SubSeq(s, 1, Len(p)) = p

\* s[:n]
Prefix(s, n) == SubSeq(s, 1, IF Len(s) < n THEN Len(s) ELSE n)

\* c in s
Contains(s, c) == \E i \in 1..Len(s) : s[i] = c

\* s.split(sep) with a one-character separator: empty pieces are kept.
RECURSIVE SplitOn(_, _)
SplitOn(s, sep) ==
    IF ~Contains(s, sep) THEN <<s>>
    ELSE LET i == CHOOSE k \in 1..Len(s) :
                      s[k] = sep /\ \A j \in 1..(k - 1) : s[j] # sep
         IN  <<SubSeq(s, 1, i - 1)>> \o SplitOn(SubSeq(s, i + 1, Len(s)), sep)

\* s.strip().split(): split on runs of whitespace, no empty pieces.
SplitWhitespace(s) == SelectSeq(SplitOn(s, " "), LAMBDA p : p # <<>>)

RECURSIVE DecimalValue(_)
DecimalValue(s) ==
    IF s = <<>> THEN 0
    ELSE 10 * DecimalValue(SubSeq(s, 1, Len(s) - 1)) + DigitVal(s[Len(s)])

\* int(s): an optional sign and at least one decimal digit, ValueError
\* otherwise ("+", "_" and inner whitespace are not in the model's alphabet
\* after splitting).
int(s) ==
    LET signed == Len(s) > 0 /\ s[1] = "-"
        body   == IF signed THEN Tail(s) ELSE s
    IN  IF body = <<>> \/ \E i \in 1..Len(body) : ~IsDigit(body[i])
        THEN RaiseInt("ValueError")
        ELSE Ret(IF signed THEN 0 - DecimalValue(body) ELSE DecimalValue(body))

\* Python's value % step for step # 0 and value >= 0: zero exactly when the
\* magnitude of step divides value.
PyModIsZero(value, step) ==
    LET m == IF step < 0 THEN 0 - step ELSE step IN value % m = 0

\* ------------------------------------------------------------------------
\* cron_matches
\* ------------------------------------------------------------------------
matches_field(field, value) ==
    IF field = <<"*">> THEN Ret(TRUE)
    ELSE IF Contains(field, "/") THEN
        LET p == SplitOn(field, "/") IN
        IF Len(p) # 2 THEN RaiseBool("ValueError")
        ELSE LET step_val == int(p[2]) IN
             IF step_val.exc # "none" THEN RaiseBool(step_val.exc)
             ELSE IF p[1] = <<"*">> THEN
                 IF step_val.val = 0 THEN RaiseBool("ZeroDivisionError")
                 ELSE Ret(PyModIsZero(value, step_val.val))
             ELSE Ret(FALSE)
    ELSE IF Contains(field, "-") THEN
        LET p == SplitOn(field, "-") IN
        IF Len(p) # 2 \/ int(p[1]).exc # "none" \/ int(p[2]).exc # "none"
        THEN RaiseBool("ValueError")
        ELSE Ret(int(p[1]).val <= value /\ value <= int(p[2]).val)
    ELSE IF Contains(field, ",") THEN
        LET p == SplitOn(field, ",") IN
        IF \E i \in 1..Len(p) : int(p[i]).exc # "none"
        THEN RaiseBool("ValueError")
        ELSE Ret(\E i \in 1..Len(p) : int(p[i]).val = value)
    ELSE LET n == int(field) IN
         IF n.exc # "none" THEN RaiseBool(n.exc) ELSE Ret(value = n.val)

\* dt.weekday(): Monday = 0 .. Sunday = 6 (Sakamoto's day-of-week rule).
weekday(dt) ==
    LET t == <<0, 3, 2, 5, 0, 3, 5, 1, 4, 6, 2, 4>>
        y == IF dt.month < 3 THEN dt.year - 1 ELSE dt.year
        sunday0 == (y + (y \div 4) - (y \div 100) + (y \div 400)
                      + t[dt.month] + dt.day) % 7
    IN  (sunday0 + 6) % 7

\* Mutant: the weekday is not converted to cron's numbering.
cron_weekday_unconverted(dt) == weekday(dt)

\* Cron weekday: 0 = Sunday.
cron_weekday(dt) == (weekday(dt) + 1) % 7

\* "a and b and ...": the operands are evaluated left to right and evaluation
\* stops at the first false one or at the first exception.
RECURSIVE AndChain(_, _, _)
AndChain(fields, values, i) ==
    IF i > Len(fields) THEN Ret(TRUE)
    ELSE LET r == matches_field(fields[i], values[i]) IN
         IF r.exc # "none" THEN r
         ELSE IF ~r.val THEN Ret(FALSE)
         ELSE AndChain(fields, values, i + 1)

cron_matches(cron_expression, dt) ==
    LET parts == SplitWhitespace(cron_expression) IN
    IF Len(parts) # 5 THEN Ret(FALSE)
    ELSE AndChain(parts,
                  <<dt.minute, dt.hour, dt.day, dt.month, cron_weekday(dt)>>,
                  1)

\* ------------------------------------------------------------------------
\* Instants and strftime
\* ------------------------------------------------------------------------
DateTime(y, mo, d, h, mi) ==
    [year |-> y, month |-> mo, day |-> d, hour |-> h, minute |-> mi]

\* The instants datetime.now(timezone.utc) takes in the model, in
\* chronological order (2024-01-15 is a Monday): a minute, the next minute
\* of the same hour, a later hour of the same day, and the next day.
Instants ==
    << DateTime(2024, 1, 15, 9, 0),
       DateTime(2024, 1, 15, 9, 1),
       DateTime(2024, 1, 15, 23, 30),
       DateTime(2024, 1, 16, 9, 0) >>

RECURSIVE DecimalString(_)
DecimalString(n) ==
    IF n < 10 THEN <<Digits[n + 1]>>
    ELSE DecimalString(n \div 10) \o <<Digits[(n % 10) + 1]>>

RECURSIVE ZeroPad(_, _)
ZeroPad(s, width) == IF Len(s) >= width THEN s ELSE ZeroPad(<<"0">> \o s, width)

\* now.strftime("%Y-%m-%d-%H")
strftime_hour(dt) ==
    ZeroPad(DecimalString(dt.year), 4) \o <<"-">>
      \o ZeroPad(DecimalString(dt.month), 2) \o <<"-">>
      \o ZeroPad(DecimalString(dt.day), 2) \o <<"-">>
      \o ZeroPad(DecimalString(dt.hour), 2)

\* now.strftime("%Y-%m-%d-%H-%M")
strftime_minute(dt) ==
    strftime_hour(dt) \o <<"-">> \o ZeroPad(DecimalString(dt.minute), 2)

\* ------------------------------------------------------------------------
\* Swarms of the registry
\* ------------------------------------------------------------------------
\* schedule_type is a plain string; "None" stands for a null or absent
\* schedule_type, "" for the empty string.
Swarm(id, name, paused, stype, cron) ==
    [id |-> id, display_name |-> name, is_paused |-> paused,
     schedule_type |-> stype, cron_expression |-> cron]

EveryMinute == <<"*", " ", "*", " ", "*", " ", "*", " ", "*">>

SwarmPool ==
    { Swarm(<<"a">>, <<"A">>, FALSE, "daily", None),
      Swarm(<<"b">>, None, FALSE, "custom", EveryMinute),
      Swarm(<<"c">>, <<"C">>, TRUE, "custom", EveryMinute),
      Swarm(<<"d">>, <<"D">>, FALSE, "custom",
            <<"*", "/", "0", " ", "*", " ", "*", " ", "*", " ", "*">>),
      Swarm(<<"e">>, <<"E">>, FALSE, "none", EveryMinute) }

RECURSIVE SeqsUpTo(_, _)
SeqsUpTo(S, n) ==
    IF n = 0 THEN {<<>>}
    ELSE LET shorter == SeqsUpTo(S, n - 1) IN
         shorter \cup {Append(q, x) : q \in shorter, x \in S}

\* The lists get_swarms can return: the id of a swarm is unique.
SwarmLists ==
    {q \in SeqsUpTo(SwarmPool, MaxSwarms) :
        \A i, j \in 1..Len(q) : q[i].id = q[j].id => i = j}

\* ------------------------------------------------------------------------
\* get_effective_cron
\* ------------------------------------------------------------------------
\* Python truth value of a string or None.
Truthy(s) == s # None /\ s # <<>>

DefaultDaily == <<"0", " ", "9", " ", "*", " ", "*", " ", "*">>

DefaultWeekly == <<"0", " ", "9", " ", "*", " ", "*", " ", "1">>

DefaultMonthly == <<"0", " ", "9", " ", "1", " ", "*", " ", "*">>

\* Mutant: the default of the schedule type wins over cron_expression.
get_effective_cron_default_first(swarm) ==
    IF swarm.schedule_type \in {"None", ""} THEN None
    ELSE CASE swarm.schedule_type = "daily" -> DefaultDaily
           [] swarm.schedule_type = "weekly" -> DefaultWeekly
           [] swarm.schedule_type = "monthly" -> DefaultMonthly
           [] OTHER -> IF Truthy(swarm.cron_expression)
                       THEN swarm.cron_expression ELSE None

get_effective_cron(swarm) ==
    IF swarm.schedule_type \in {"None", ""} THEN None
    ELSE IF Truthy(swarm.cron_expression) THEN swarm.cron_expression
    ELSE CASE swarm.schedule_type = "daily" -> DefaultDaily
           [] swarm.schedule_type = "weekly" -> DefaultWeekly
           [] swarm.schedule_type = "monthly" -> DefaultMonthly
           [] OTHER -> None

\* ------------------------------------------------------------------------
\* State
\* ------------------------------------------------------------------------
\* clock:     index in Instants of the current instant (datetime.now)
\* persisted: context.cursor, the JSON object text kept by the sensor
\*            framework between evaluations, as the set of its keys (every
\*            value is true; None and "{}" are the empty set)
\* registry:  the swarm records the Observatory API lists (GET /api/swarms)
\* ncycles:   number of evaluations of swarm_schedule_sensor so far
\* succeeded: history: dedup key -> number of run_swarm calls that returned
\*            for that swarm while that slot was the current slot
\* last:      history: inputs and results of the latest evaluation, and the
\*            keys of the run_swarm calls that raised in the one before it
\* cron:      one call of cron_matches on its own: the arguments and, once
\*            it has been evaluated, the result
\* resolved:  one call of get_effective_cron on its own: the swarm and, once
\*            it has been evaluated, the result
\* raw:       context.cursor as long as it is a text no evaluation of the
\*            sensor has written (None when the framework holds no cursor);
\*            NoRaw once the cursor is the one persisted stands for
VARIABLES clock, registry, persisted, ncycles, succeeded, last, cron,
          resolved, raw

vars == <<clock, registry, persisted, ncycles, succeeded, last, cron,
          resolved, raw>>

\* ------------------------------------------------------------------------
\* swarm_schedule_sensor
\* ------------------------------------------------------------------------
\* f"{current_minute}:{swarm_id}"
dedup_key(current_minute, swarm_id) == current_minute \o <<":">> \o swarm_id

\* Mutant: nothing is dropped.
prune_keeps_all(cursor, cutoff) == cursor

\* Mutant: the keys of the current month are kept.
prune_keeps_month(cursor, cutoff) ==
    {k \in cursor : StartsWith(k, cutoff) \/ StrGreater(k, Prefix(cutoff, 7))}

\* {k: v for k, v in cursor.items() if k.startswith(cutoff) or k > cutoff[:10]}
prune(cursor, cutoff) ==
    {k \in cursor : StartsWith(k, cutoff) \/ StrGreater(k, Prefix(cutoff, 10))}

\* swarm.get("display_name") or swarm_id[:8]
display_name(swarm) ==
    IF Truthy(swarm.display_name) THEN swarm.display_name
    ELSE Prefix(swarm.id, 8)

\* Mutant: a paused swarm is evaluated like any other.
loop_body_ignores_pause(st, swarm, pos, now, run_ok) ==
    LET cron_expr == get_effective_cron(swarm)
        m   == cron_matches(cron_expr, now)
        key == dedup_key(strftime_minute(now), swarm.id)
    IN  IF ~Truthy(cron_expr) THEN st
        ELSE IF m.exc # "none" THEN [st EXCEPT !.exc = m.exc]
        ELSE IF ~m.val THEN st
        ELSE IF key \in st.cursor THEN st
        ELSE IF run_ok
             THEN [st EXCEPT
                     !.calls = Append(@, [pos |-> pos, id |-> swarm.id, key |-> key,
                                          ok |-> TRUE]),
                     !.triggered = Append(@, display_name(swarm)),
                     !.cursor = @ \cup {key}]
             ELSE [st EXCEPT
                     !.calls = Append(@, [pos |-> pos, id |-> swarm.id, key |-> key,
                                        ok |-> FALSE])]

\* Mutant: the dedup key is marked although run_swarm raised.
loop_body_marks_failure(st, swarm, pos, now, run_ok) ==
    LET cron_expr == get_effective_cron(swarm)
        m   == cron_matches(cron_expr, now)
        key == dedup_key(strftime_minute(now), swarm.id)
    IN  IF swarm.is_paused THEN st
        ELSE IF ~Truthy(cron_expr) THEN st
        ELSE IF m.exc # "none" THEN [st EXCEPT !.exc = m.exc]
        ELSE IF ~m.val THEN st
        ELSE IF key \in st.cursor THEN st
        ELSE IF run_ok
             THEN [st EXCEPT
                     !.calls = Append(@, [pos |-> pos, id |-> swarm.id, key |-> key,
                                          ok |-> TRUE]),
                     !.triggered = Append(@, display_name(swarm)),
                     !.cursor = @ \cup {key}]
             ELSE [st EXCEPT
                     !.calls = Append(@, [pos |-> pos, id |-> swarm.id, key |-> key,
                                        ok |-> FALSE]),
                     !.cursor = @ \cup {key}]

\* One iteration of "for swarm in swarms".  st is the state of the loop:
\* the local cursor, the triggered list, the run_swarm calls made so far and
\* the exception that left the loop, if any.  run_ok says whether run_swarm
\* returns (TRUE) or raises (FALSE) for this swarm.
loop_body(st, swarm, pos, now, run_ok) ==
    LET cron_expr == get_effective_cron(swarm)
        m   == cron_matches(cron_expr, now)
        key == dedup_key(strftime_minute(now), swarm.id)
    IN  IF swarm.is_paused THEN st
        ELSE IF ~Truthy(cron_expr) THEN st
        ELSE IF m.exc # "none" THEN [st EXCEPT !.exc = m.exc]
        ELSE IF ~m.val THEN st
        ELSE IF key \in st.cursor THEN st
        ELSE IF run_ok
             THEN [st EXCEPT
                     !.calls = Append(@, [pos |-> pos, id |-> swarm.id, key |-> key,
                                          ok |-> TRUE]),
                     !.triggered = Append(@, display_name(swarm)),
                     !.cursor = @ \cup {key}]
             ELSE [st EXCEPT
                     !.calls = Append(@, [pos |-> pos, id |-> swarm.id, key |-> key,
                                        ok |-> FALSE])]

RECURSIVE swarm_loop(_, _, _, _, _)
swarm_loop(st, swarms, pos, now, run_ok) ==
    IF pos > Len(swarms) \/ st.exc # "none" THEN st
    ELSE swarm_loop(loop_body(st, swarms[pos], pos, now, run_ok[pos]),
                    swarms, pos + 1, now, run_ok)

\* The successful calls of a finished loop, counted by dedup key.
RECURSIVE Count(_)
Count(calls) ==
    IF calls = <<>> THEN [k \in {} |-> 0]
    ELSE LET rest == Count(Tail(calls))
             k    == calls[1].key
         IN  IF ~calls[1].ok THEN rest
             ELSE [x \in DOMAIN rest \cup {k} |->
                      IF x = k THEN (IF k \in DOMAIN rest THEN rest[k] + 1 ELSE 1)
                      ELSE rest[x]]

Merge(old, new) ==
    [k \in DOMAIN old \cup DOMAIN new |->
        (IF k \in DOMAIN old THEN old[k] ELSE 0)
          + (IF k \in DOMAIN new THEN new[k] ELSE 0)]

\* The keys of the run_swarm calls of a loop that raised.
FailedKeys(calls) == {calls[n].key : n \in {m \in 1..Len(calls) : ~calls[m].ok}}

NoCycle ==
    [now |-> 0, cursor_in |-> {}, pruned |-> {}, fetch_ok |-> FALSE,
     swarms |-> <<>>,
     calls |-> <<>>, triggered |-> <<>>,
     result |-> "none", wrote |-> FALSE, cursor_out |-> {},
     prev_failed |-> {}]

NoCron ==
    [valid |-> FALSE, fields |-> <<>>, expression |-> <<>>, dt |-> Instants[1],
     done |-> FALSE, result |-> Ret(FALSE)]

NoResolved ==
    [swarm |-> Swarm(<<>>, None, FALSE, "None", None), done |-> FALSE,
     result |-> None]

NoRaw == <<"persisted">>

Init ==
    /\ clock = 1
    /\ registry \in SwarmLists
    /\ persisted = {}
    /\ ncycles = 0
    /\ succeeded = [k \in {} |-> 0]
    /\ last = NoCycle
    /\ cron = NoCron
    /\ resolved = NoResolved
    /\ raw = NoRaw

\* Time passes.
Tick ==
    /\ clock < Len(Instants)
    /\ clock' = clock + 1
    /\ UNCHANGED <<registry, persisted, ncycles, succeeded, last, cron,
                 resolved, raw>>

\* Mutant: the pruned cursor is written before the handler returns.
SensorFetchFailsWritesPruned ==
    LET now    == Instants[clock]
        cursor == prune(persisted, strftime_hour(now))
    IN  /\ ncycles < MaxCycles
        /\ ncycles' = ncycles + 1
        /\ persisted' = cursor
        /\ last' = [NoCycle EXCEPT !.now = clock, !.cursor_in = persisted,
                                   !.pruned = cursor,
                                   !.result = "skip_api_error",
                                   !.prev_failed = FailedKeys(last.calls)]
        /\ UNCHANGED <<clock, registry, succeeded, cron, resolved, raw>>

\* An evaluation in which observatory_api.get_swarms() raises: the cursor has
\* been loaded and pruned, and the handler returns before update_cursor.
SensorFetchFails ==
    LET now    == Instants[clock]
        cursor == prune(persisted, strftime_hour(now))
    IN  /\ ncycles < MaxCycles
        /\ ncycles' = ncycles + 1
        /\ persisted' = persisted
        /\ last' = [NoCycle EXCEPT !.now = clock, !.cursor_in = persisted,
                                   !.pruned = cursor,
                                   !.result = "skip_api_error",
                                   !.prev_failed = FailedKeys(last.calls)]
        /\ UNCHANGED <<clock, registry, succeeded, cron, resolved, raw>>

\* An evaluation in which get_swarms returns swarms, and run_swarm returns
\* or raises as run_ok says.
SensorEvaluates(swarms, run_ok) ==
    LET now    == Instants[clock]
        cutoff == strftime_hour(now)
        cursor == prune(persisted, cutoff)
        st0    == [cursor |-> cursor, triggered |-> <<>>, calls |-> <<>>,
                   exc |-> "none"]
    IN  \E st \in {swarm_loop(st0, swarms, 1, now, run_ok)} :
        /\ ncycles' = ncycles + 1
        /\ succeeded' = Merge(succeeded, Count(st.calls))
        /\ persisted' = IF st.exc = "none" THEN st.cursor ELSE persisted
        /\ last' = [now |-> clock, cursor_in |-> persisted, pruned |-> cursor,
                    fetch_ok |-> TRUE,
                    swarms |-> swarms, calls |-> st.calls,
                    triggered |-> st.triggered,
                    result |-> IF st.exc # "none" THEN st.exc
                               ELSE IF st.triggered # <<>> THEN "success"
                               ELSE "skip_no_match",
                    wrote |-> st.exc = "none",
                    cursor_out |-> IF st.exc = "none" THEN st.cursor ELSE {},
                    prev_failed |-> FailedKeys(last.calls)]
        /\ UNCHANGED <<clock, registry, cron, resolved, raw>>

\* What run_swarm may do in one pass over swarms at now: it returns (TRUE) or
\* raises (FALSE) for each swarm the loop can reach the call for; for the
\* others, which the loop never calls it for, the entry is TRUE.
RunOutcomes(swarms, now) ==
    LET callable ==
          {i \in 1..Len(swarms) :
              /\ ~swarms[i].is_paused
              /\ Truthy(get_effective_cron(swarms[i]))
              /\ cron_matches(get_effective_cron(swarms[i]), now) = Ret(TRUE)}
    IN  {[i \in 1..Len(swarms) |-> IF i \in callable THEN f[i] ELSE TRUE] :
            f \in [callable -> BOOLEAN]}

swarm_schedule_sensor ==
    \/ SensorFetchFails
    \/ /\ ncycles < MaxCycles
       /\ \E run_ok \in RunOutcomes(registry, Instants[clock]) :
            SensorEvaluates(registry, run_ok)

Next == Tick \/ swarm_schedule_sensor

Spec == Init /\ [][Next]_vars

\* ------------------------------------------------------------------------
\* Evaluations that the framework kills
\* ------------------------------------------------------------------------
\* An evaluation whose process is killed when the loop has gone through the
\* first `done` swarms of the list (0: before the loop): the run_swarm calls
\* made so far have had their effect, the local cursor is lost and
\* update_cursor is not reached.
SensorKilled(swarms, done, run_ok) ==
    LET now    == Instants[clock]
        cursor == prune(persisted, strftime_hour(now))
        st0    == [cursor |-> cursor, triggered |-> <<>>, calls |-> <<>>,
                   exc |-> "none"]
    IN  \E st \in {swarm_loop(st0, SubSeq(swarms, 1, done), 1, now, run_ok)} :
        /\ st.exc = "none"
        /\ ncycles' = ncycles + 1
        /\ succeeded' = Merge(succeeded, Count(st.calls))
        /\ persisted' = persisted
        /\ last' = [NoCycle EXCEPT !.now = clock, !.cursor_in = persisted,
                                   !.pruned = cursor, !.fetch_ok = done > 0,
                                   !.swarms = swarms, !.calls = st.calls,
                                   !.result = "killed",
                                   !.prev_failed = FailedKeys(last.calls)]
        /\ UNCHANGED <<clock, registry, cron, resolved, raw>>

swarm_schedule_sensor_killed ==
    /\ ncycles < MaxCycles
    /\ \E done \in 0..Len(registry) :
         \E run_ok \in [1..done -> BOOLEAN] :
            SensorKilled(registry, done, run_ok)

NextKill == Next \/ swarm_schedule_sensor_killed

SpecKill == Init /\ [][NextKill]_vars

\* ------------------------------------------------------------------------
\* Loading the cursor: json.loads(context.cursor or "{}")
\* ------------------------------------------------------------------------
RaiseDict(e) == [exc |-> e, val |-> {}]

\* The character at index i, "" past the end.
At(t, i) == IF i <= Len(t) THEN t[i] ELSE ""

\* The first index from i on that holds no blank.
RECURSIVE SkipSpace(_, _)
SkipSpace(t, i) ==
    IF i <= Len(t) /\ t[i] = " " THEN SkipSpace(t, i + 1) ELSE i

\* The index of the first double quote from i on, 0 when there is none.
RECURSIVE StringEnd(_, _)
StringEnd(t, i) ==
    IF i > Len(t) THEN 0
    ELSE IF t[i] = "\"" THEN i
    ELSE StringEnd(t, i + 1)

\* The members of an object from index i on, where the string of a member
\* must begin; acc holds the keys read so far.
RECURSIVE parse_members(_, _, _)
parse_members(t, i, acc) ==
    LET q   == StringEnd(t, i + 1)
        c   == SkipSpace(t, q + 1)
        v   == SkipSpace(t, c + 1)
        e   == SkipSpace(t, v + 4)
        key == SubSeq(t, i + 1, q - 1)
    IN  IF At(t, i) # "\"" \/ q = 0 THEN RaiseDict("JSONDecodeError")
        ELSE IF At(t, c) # ":" THEN RaiseDict("JSONDecodeError")
        ELSE IF v + 3 > Len(t) THEN RaiseDict("JSONDecodeError")
        ELSE IF SubSeq(t, v, v + 3) # <<"t", "r", "u", "e">>
             THEN RaiseDict("JSONDecodeError")
        ELSE IF At(t, e) = ","
             THEN parse_members(t, SkipSpace(t, e + 1), acc \cup {key})
        ELSE IF At(t, e) = "}" /\ SkipSpace(t, e + 1) = Len(t) + 1
             THEN Ret(acc \cup {key})
        ELSE RaiseDict("JSONDecodeError")

\* json.loads on a text that is an object of keys with the value true, keys
\* without escapes, or that is no JSON at all: the keys of the object, or
\* JSONDecodeError.
json_loads(t) ==
    LET i == SkipSpace(t, 1)
        j == SkipSpace(t, i + 1)
    IN  IF At(t, i) # "{" THEN RaiseDict("JSONDecodeError")
        ELSE IF At(t, j) = "}"
             THEN IF SkipSpace(t, j + 1) = Len(t) + 1 THEN Ret({})
                  ELSE RaiseDict("JSONDecodeError")
        ELSE parse_members(t, j, {})

\* Mutant: a cursor that cannot be parsed is taken for the empty ledger.
load_defaults_to_empty(text) ==
    LET r == json_loads(IF Truthy(text) THEN text ELSE <<"{", "}">>)
    IN  IF r.exc = "none" THEN r ELSE Ret({})

\* json.loads(context.cursor or "{}")
load(text) == json_loads(IF Truthy(text) THEN text ELSE <<"{", "}">>)

\* Cursor texts that are JSON objects of keys with the value true, as
\* json.dumps writes them at line 134.
ObjectTexts ==
    { <<"{", "}">>,
      <<" ", "{", "}", " ">>,
      <<"{", "\"", "2", "0", "2", "4", "-", "0", "1", "-", "1", "5", "-",
        "0", "9", "-", "0", "0", ":", "b", "\"", ":", " ", "t", "r", "u",
        "e", "}">>,
      <<"{", "\"", "2", "0", "2", "4", "-", "0", "1", "-", "1", "4", "-",
        "2", "3", "-", "3", "0", ":", "a", "\"", ":", " ", "t", "r", "u",
        "e", ",", " ", "\"", "2", "0", "2", "4", "-", "0", "1", "-", "1",
        "5", "-", "0", "9", "-", "0", "0", ":", "a", "\"", ":", " ", "t",
        "r", "u", "e", "}">> }

\* Cursor texts that are not JSON.
MalformedTexts ==
    { <<" ">>,
      <<"{">>,
      <<"}">>,
      <<"a", "b", "c">>,
      <<"{", "\"", "2", "0", "2", "4", "-", "0", "1", "-", "1", "5", "-",
        "0", "9", "-", "0", "0", ":", "b", "\"", ":", " ", "t", "r", "u">>,
      <<"{", "\"", "2", "0", "2", "4", "-", "0", "1", "-", "1", "5", "-",
        "0", "9", "-", "0", "0", ":", "b", "\"", ":", " ", "t", "r", "u",
        "e", ",", "}">>,
      <<"{", "\"", "2", "0", "2", "4", "-", "0", "1", "-", "1", "5", "-",
        "0", "9", "-", "0", "0", ":", "b", "\"", " ", "t", "r", "u", "e",
        "}">>,
      <<"{", "\"", "2", "0", "2", "4", "-", "0", "1", "-", "1", "5", "-",
        "0", "9", "-", "0", "0", ":", "b", "\"", ":", " ", "t", "r", "u",
        "e", "}", " ", "x">> }

\* The cursors the framework may hand to an evaluation before the sensor
\* has written one: none, the empty text, an object, a text that is no JSON.
CursorTexts == {None, <<>>} \cup ObjectTexts \cup MalformedTexts

\* The lists of an evaluation that is given such a cursor.
RawSwarmLists == {q \in SwarmLists : Len(q) <= MaxRawSwarms}

InitRaw ==
    /\ clock = 1
    /\ registry \in RawSwarmLists
    /\ persisted = {}
    /\ ncycles = 0
    /\ succeeded = [k \in {} |-> 0]
    /\ last = NoCycle
    /\ cron = NoCron
    /\ resolved = NoResolved
    /\ raw \in CursorTexts

\* An evaluation whose context.cursor is the text raw.  The text is loaded
\* first; get_swarms returns swarms or raises as fetch_ok says, run_swarm
\* returns or raises as run_ok says.
SensorEvaluatesRaw(fetch_ok, swarms, run_ok) ==
    LET now    == Instants[clock]
        loaded == load(raw)
        cursor == prune(loaded.val, strftime_hour(now))
        st0    == [cursor |-> cursor, triggered |-> <<>>, calls |-> <<>>,
                   exc |-> "none"]
    IN  \E st \in {IF loaded.exc = "none" /\ fetch_ok
                  THEN swarm_loop(st0, swarms, 1, now, run_ok)
                  ELSE st0} :
        /\ ncycles' = ncycles + 1
        /\ succeeded' = Merge(succeeded, Count(st.calls))
        /\ IF loaded.exc = "none" /\ fetch_ok /\ st.exc = "none"
           THEN raw' = NoRaw /\ persisted' = st.cursor
           ELSE UNCHANGED <<raw, persisted>>
        /\ last' =
             IF loaded.exc # "none"
             THEN [NoCycle EXCEPT !.now = clock, !.result = loaded.exc,
                                  !.prev_failed = FailedKeys(last.calls)]
             ELSE IF ~fetch_ok
             THEN [NoCycle EXCEPT !.now = clock, !.cursor_in = loaded.val,
                                  !.pruned = cursor,
                                  !.result = "skip_api_error",
                                  !.prev_failed = FailedKeys(last.calls)]
             ELSE [now |-> clock, cursor_in |-> loaded.val, pruned |-> cursor,
                   fetch_ok |-> TRUE,
                   swarms |-> swarms, calls |-> st.calls,
                   triggered |-> st.triggered,
                   result |-> IF st.exc # "none" THEN st.exc
                              ELSE IF st.triggered # <<>> THEN "success"
                              ELSE "skip_no_match",
                   wrote |-> st.exc = "none",
                   cursor_out |-> IF st.exc = "none" THEN st.cursor ELSE {},
                   prev_failed |-> FailedKeys(last.calls)]
        /\ UNCHANGED <<clock, registry, cron, resolved>>

swarm_schedule_sensor_raw ==
    /\ ncycles < MaxCycles
    /\ raw # NoRaw
    /\ \/ SensorEvaluatesRaw(FALSE, registry, <<>>)
       \/ /\ load(raw).exc = "none"
          /\ \E run_ok \in RunOutcomes(registry, Instants[clock]) :
               SensorEvaluatesRaw(TRUE, registry, run_ok)

NextRaw == Tick \/ swarm_schedule_sensor_raw

SpecRaw == InitRaw /\ [][NextRaw]_vars

\* ------------------------------------------------------------------------
\* cron_matches on its own: the expressions and instants it is applied to
\* ------------------------------------------------------------------------
\* A field of one of the documented forms, before it is written as text.
Field(kind, a, b, vs) == [kind |-> kind, a |-> a, b |-> b, vs |-> vs]

FStar == Field("star", 0, 0, <<>>)

FStep(n) == Field("step", 0, n, <<>>)

FRange(a, b) == Field("range", a, b, <<>>)

FList(vs) == Field("list", 0, 0, vs)

FInt(v) == Field("int", v, 0, <<>>)

\* A step whose base is a number, not "*".
FBaseStep(a, n) == Field("basestep", a, n, <<>>)

RECURSIVE JoinWith(_, _)
JoinWith(pieces, sep) ==
    IF Len(pieces) = 0 THEN <<>>
    ELSE IF Len(pieces) = 1 THEN pieces[1]
    ELSE pieces[1] \o <<sep>> \o JoinWith(Tail(pieces), sep)

\* The text of a field.
FieldText(f) ==
    CASE f.kind = "star" -> <<"*">>
      [] f.kind = "step" -> <<"*", "/">> \o DecimalString(f.b)
      [] f.kind = "range" -> DecimalString(f.a) \o <<"-">> \o DecimalString(f.b)
      [] f.kind = "list" ->
           JoinWith([i \in 1..Len(f.vs) |-> DecimalString(f.vs[i])], ",")
      [] f.kind = "int" -> DecimalString(f.a)
      [] f.kind = "basestep" -> DecimalString(f.a) \o <<"/">> \o DecimalString(f.b)

ExpressionText(fields) ==
    JoinWith([i \in 1..Len(fields) |-> FieldText(fields[i])], " ")

\* The documented fields tried in each of the five positions.
MinuteFields ==
    {FStar, FStep(15), FInt(0), FRange(0, 30), FList(<<0, 30>>), FBaseStep(0, 15)}

HourFields == {FStar, FInt(9), FRange(9, 17)}

DayFields == {FStar, FInt(15), FStep(2)}

MonthFields == {FStar, FList(<<1, 7>>)}

WeekdayFields == {FStar, FInt(1), FRange(1, 5), FList(<<0, 6>>)}

DocumentedFields ==
    MinuteFields \X HourFields \X DayFields \X MonthFields \X WeekdayFields

Text(w) == JoinWith(w, " ")

\* Expressions outside the documented forms.
OtherExpressions ==
    { <<>>,
      Text(<< <<"*">>, <<"*">>, <<"*">>, <<"*">> >>),
      Text(<< <<"*">>, <<"*">>, <<"*">>, <<"*">>, <<"*">>, <<"*">> >>),
      Text(<< <<"a", "b", "c">>, <<"*">>, <<"*">>, <<"*">>, <<"*">> >>),
      Text(<< <<"0">>, <<"a", "b", "c">>, <<"*">>, <<"*">>, <<"*">> >>),
      Text(<< <<"*", "/", "0">>, <<"*">>, <<"*">>, <<"*">>, <<"*">> >>),
      Text(<< <<"*", "/", "a">>, <<"*">>, <<"*">>, <<"*">>, <<"*">> >>),
      Text(<< <<"0", "/", "a">>, <<"*">>, <<"*">>, <<"*">>, <<"*">> >>),
      Text(<< <<"1", ",", "1", "5", "-", "2", "0">>, <<"*">>, <<"*">>, <<"*">>,
              <<"*">> >>),
      Text(<< <<"1", "-", "5", "/", "2">>, <<"*">>, <<"*">>, <<"*">>, <<"*">> >>),
      Text(<< <<"1", "-", "2", "-", "3">>, <<"*">>, <<"*">>, <<"*">>, <<"*">> >>),
      Text(<< <<"-", "1">>, <<"*">>, <<"*">>, <<"*">>, <<"*">> >>),
      Text(<< <<"1", ",">>, <<"*">>, <<"*">>, <<"*">>, <<"*">> >>) }

\* The instants cron_matches is applied to (2024-01-14 is a Sunday,
\* 2024-07-20 a Saturday).
CronInstants ==
    { DateTime(2024, 1, 14, 9, 0),
      DateTime(2024, 1, 15, 9, 0),
      DateTime(2024, 1, 15, 9, 1),
      DateTime(2024, 1, 15, 17, 30),
      DateTime(2024, 1, 16, 9, 0),
      DateTime(2024, 1, 16, 18, 45),
      DateTime(2024, 7, 20, 8, 15),
      DateTime(2024, 2, 1, 0, 31) }

CronInputs ==
    {[valid |-> TRUE, fields |-> f, expression |-> ExpressionText(f), dt |-> dt,
      done |-> FALSE, result |-> Ret(FALSE)] : f \in DocumentedFields,
                                              dt \in CronInstants}
      \cup
    {[valid |-> FALSE, fields |-> <<>>, expression |-> e, dt |-> dt,
      done |-> FALSE, result |-> Ret(FALSE)] : e \in OtherExpressions,
                                              dt \in CronInstants}

InitCron ==
    /\ clock = 1
    /\ registry = <<>>
    /\ persisted = {}
    /\ ncycles = 0
    /\ succeeded = [k \in {} |-> 0]
    /\ last = NoCycle
    /\ cron \in CronInputs
    /\ resolved = NoResolved
    /\ raw = NoRaw

\* cron_matches(expression, dt) is called.
CronMatches ==
    /\ ~cron.done
    /\ cron' = [cron EXCEPT !.done = TRUE,
                            !.result = cron_matches(cron.expression, cron.dt)]
    /\ UNCHANGED <<clock, registry, persisted, ncycles, succeeded, last,
                 resolved, raw>>

NextCron == CronMatches

SpecCron == InitCron /\ [][NextCron]_vars

\* ------------------------------------------------------------------------
\* get_effective_cron on its own: the swarms it is applied to
\* ------------------------------------------------------------------------
\* The schedule types tried: null or absent ("None"), the empty string, the
\* five values of the enum and a type outside it.
ScheduleTypes ==
    {"None", "", "none", "daily", "weekly", "monthly", "custom", "hourly"}

\* The cron_expression values tried: null or absent, the empty string,
\* expressions (one of them a default of another type) and a text that is
\* no expression.
CronExpressions ==
    { None, <<>>, EveryMinute, DefaultWeekly,
      <<"3", "0", " ", "1", "7", " ", "*", " ", "*", " ", "1", "-", "5">>,
      <<"*", "/", "0", " ", "*", " ", "*", " ", "*", " ", "*">>,
      <<"a", "b", "c">> }

ResolverInputs ==
    {[swarm |-> Swarm(<<"s">>, <<"S">>, FALSE, t, e), done |-> FALSE,
      result |-> None] : t \in ScheduleTypes, e \in CronExpressions}

InitResolver ==
    /\ clock = 1
    /\ registry = <<>>
    /\ persisted = {}
    /\ ncycles = 0
    /\ succeeded = [k \in {} |-> 0]
    /\ last = NoCycle
    /\ cron = NoCron
    /\ resolved \in ResolverInputs
    /\ raw = NoRaw

\* get_effective_cron(swarm) is called.
GetEffectiveCron ==
    /\ ~resolved.done
    /\ resolved' = [resolved EXCEPT !.done = TRUE,
                                    !.result = get_effective_cron(resolved.swarm)]
    /\ UNCHANGED <<clock, registry, persisted, ncycles, succeeded, last, cron,
                   raw>>

NextResolver == GetEffectiveCron

SpecResolver == InitResolver /\ [][NextResolver]_vars

\* ------------------------------------------------------------------------
\* Vocabulary of the properties
\* ------------------------------------------------------------------------
CycleRan == last.result # "none"

LastNow == Instants[last.now]

LastKey(id) == dedup_key(strftime_minute(LastNow), id)

LastPositions == 1..Len(last.swarms)

\* The run_swarm calls of the latest evaluation for the swarm at position i.
CallsAt(i) == {n \in 1..Len(last.calls) : last.calls[n].pos = i}

InList(x, list) == \E n \in 1..Len(list) : list[n] = x

IsNumber(s) == Len(s) > 0 /\ \A i \in 1..Len(s) : IsDigit(s[i])

\* A field of one of the five documented forms: *, */n with n > 0, a-b,
\* a comma list of integers, an integer.
DocumentedField(f) ==
    \/ f = <<"*">>
    \/ /\ Len(f) > 2
       /\ f[1] = "*"
       /\ f[2] = "/"
       /\ IsNumber(SubSeq(f, 3, Len(f)))
       /\ DecimalValue(SubSeq(f, 3, Len(f))) > 0
    \/ /\ Len(SplitOn(f, "-")) = 2
       /\ \A i \in 1..2 : IsNumber(SplitOn(f, "-")[i])
    \/ \A i \in 1..Len(SplitOn(f, ",")) : IsNumber(SplitOn(f, ",")[i])

\* An expression of five documented fields.
DocumentedExpression(e) ==
    /\ Len(SplitWhitespace(e)) = 5
    /\ \A i \in 1..5 : DocumentedField(SplitWhitespace(e)[i])

\* The swarm is unpaused and scheduled.
Scheduled(swarm) == ~swarm.is_paused /\ Truthy(get_effective_cron(swarm))

\* The swarm is unpaused and its documented schedule matches the instant.
Matching(swarm, dt) ==
    /\ Scheduled(swarm)
    /\ DocumentedExpression(get_effective_cron(swarm))
    /\ cron_matches(get_effective_cron(swarm), dt) = Ret(TRUE)

\* The swarm is unpaused and its schedule is not a documented expression.
InvalidSchedule(swarm) ==
    Scheduled(swarm) /\ ~DocumentedExpression(get_effective_cron(swarm))

AllSucceeded(calls) == \A n \in 1..Len(calls) : calls[n].ok

\* ------------------------------------------------------------------------
\* C1
\* ------------------------------------------------------------------------
\* C1: for every swarm and every minute slot, at most one run_swarm call for
\* that swarm succeeds while that slot is the current slot, over all the
\* evaluations.
C1_AtMostOneSuccessPerSlot == \A k \in DOMAIN succeeded : succeeded[k] <= 1

\* ------------------------------------------------------------------------
\* C2
\* ------------------------------------------------------------------------
\* C2: when an evaluation follows another in the same minute with the same
\* swarm list, some swarm of the list matching, the slot being new to the
\* first one and every trigger call succeeding, each matching unpaused swarm
\* has been triggered exactly once, by the first evaluation, and the second
\* one calls nothing and returns the "no match" skip.
C2_SecondCycleTriggersNothing ==
    [][(/\ ncycles' = ncycles + 1
        /\ CycleRan
        /\ last.fetch_ok /\ last'.fetch_ok
        /\ last'.now = last.now
        /\ last'.swarms = last.swarms
        /\ \E i \in LastPositions : Matching(last.swarms[i], LastNow)
        /\ \A i \in LastPositions : LastKey(last.swarms[i].id) \notin last.pruned
        /\ AllSucceeded(last.calls) /\ AllSucceeded(last'.calls))
       => (/\ \A i \in LastPositions :
                Matching(last.swarms[i], LastNow) => Cardinality(CallsAt(i)) = 1
           /\ last'.calls = <<>>
           /\ last'.result = "skip_no_match")]_vars

\* ------------------------------------------------------------------------
\* C3
\* ------------------------------------------------------------------------
\* C3: in an evaluation where the trigger of swarm A raised and the trigger
\* of swarm B succeeded, the evaluation has not aborted: it wrote its cursor,
\* B's display name is in the triggered list, B's key is in the cursor
\* written and A's key is not.
C3_TriggerFailureIsolated ==
    \A n, m \in 1..Len(last.calls) :
        (~last.calls[n].ok /\ last.calls[m].ok)
        => /\ last.wrote
           /\ last.result = "success"
           /\ InList(display_name(last.swarms[last.calls[m].pos]), last.triggered)
           /\ last.calls[m].key \in persisted
           /\ last.calls[n].key \notin persisted

\* ------------------------------------------------------------------------
\* C4
\* ------------------------------------------------------------------------
\* C4: after an evaluation in which get_swarms raised, the persisted cursor
\* is the cursor the evaluation was given, pruning included, no run_swarm
\* call was made and the outcome is the skip that carries the fetch error.
C4_FetchFailureLeavesCursor ==
    (CycleRan /\ ~last.fetch_ok)
    => /\ persisted = last.cursor_in
       /\ ~last.wrote
       /\ last.calls = <<>>
       /\ last.result = "skip_api_error"

\* An evaluation whose fetch failed although pruning had entries to drop.
C4_Witness ==
    CycleRan /\ ~last.fetch_ok /\ last.pruned # last.cursor_in

\* ------------------------------------------------------------------------
\* C5
\* ------------------------------------------------------------------------
\* C5: every evaluation ends with one outcome, triggered or skipped, and,
\* unless the fetch failed, with its cursor written; no exception leaves
\* swarm_schedule_sensor.
C5_NoExceptionEscapes ==
    CycleRan
    => /\ last.result \in {"success", "skip_no_match", "skip_api_error"}
       /\ (last.fetch_ok => last.wrote)

\* ------------------------------------------------------------------------
\* C6
\* ------------------------------------------------------------------------
\* C6: in an evaluation whose list holds a swarm with an invalid schedule
\* expression, that swarm is not triggered, every other swarm that matches
\* and is not yet marked is triggered, and the cursor is written.
C6_InvalidCronSkipped ==
    \A i \in LastPositions :
        (last.fetch_ok /\ InvalidSchedule(last.swarms[i]))
        => /\ CallsAt(i) = {}
           /\ last.wrote
           /\ \A j \in LastPositions :
                (/\ Matching(last.swarms[j], LastNow)
                 /\ LastKey(last.swarms[j].id) \notin last.pruned)
                => CallsAt(j) # {}

\* ------------------------------------------------------------------------
\* C7
\* ------------------------------------------------------------------------
\* C7: cron_matches returns a boolean for every expression and instant and
\* never raises, and it returns false for an expression that has not five
\* fields or has a field outside the documented forms.
C7_CronMatchesTotal ==
    cron.done
    => /\ cron.result.exc = "none"
       /\ (~DocumentedExpression(cron.expression) => ~cron.result.val)

C9_PausedNeverRun ==
    \A n \in 1..Len(last.calls) : ~last.swarms[last.calls[n].pos].is_paused

\* An evaluation that triggered a swarm while the list held a paused swarm
\* whose schedule matched and whose key was not in the ledger.
C9_Witness ==
    /\ last.wrote
    /\ last.calls # <<>>
    /\ \E i \in LastPositions :
         /\ last.swarms[i].is_paused
         /\ cron_matches(get_effective_cron(last.swarms[i]), LastNow) = Ret(TRUE)
         /\ LastKey(last.swarms[i].id) \notin last.pruned

\* ------------------------------------------------------------------------
\* C10
\* ------------------------------------------------------------------------
\* The documented rule of one field.
FieldRule(f, value) ==
    CASE f.kind = "star" -> TRUE
      [] f.kind = "step" -> value % f.b = 0
      [] f.kind = "range" -> f.a <= value /\ value <= f.b
      [] f.kind = "list" -> \E i \in 1..Len(f.vs) : f.vs[i] = value
      [] f.kind = "int" -> value = f.a
      [] f.kind = "basestep" -> FALSE

\* Day of the week of a date of 2024, 0 = Sunday .. 6 = Saturday, counted
\* from Sunday 2024-01-07.
DayOfWeek2024(dt) ==
    LET before == <<0, 31, 60, 91, 121, 152, 182, 213, 244, 274, 305, 335>>
    IN  (before[dt.month] + dt.day) % 7

Components(dt) == <<dt.minute, dt.hour, dt.day, dt.month, DayOfWeek2024(dt)>>

\* C10: for an expression of five documented fields (or steps with a numeric
\* base) cron_matches returns, without raising, true exactly when each of
\* the five fields matches its component of the instant under the documented
\* rules.
C10_CronRules ==
    (cron.done /\ cron.valid)
    => cron.result =
         Ret(\A i \in 1..5 : FieldRule(cron.fields[i], Components(cron.dt)[i]))

\* A match that rests on a step in the minute field and on the day of week.
C10_Witness ==
    /\ cron.done
    /\ cron.valid
    /\ cron.result = Ret(TRUE)
    /\ cron.fields[1].kind = "step"
    /\ cron.fields[5].kind = "int"

\* ------------------------------------------------------------------------
\* C11
\* ------------------------------------------------------------------------
\* A field of a swarm record holds a value: it is neither null or absent nor
\* the empty string.
Present(type) == type \notin {"None", ""}

\* C11: get_effective_cron returns null for a swarm without a schedule_type;
\* otherwise the cron_expression itself when the swarm has one; otherwise
\* "0 9 * * *" for daily, "0 9 * * 1" for weekly, "0 9 1 * *" for monthly and
\* null for every other type, custom included.  A field that holds the empty
\* string counts as a field without a value.
C11_ResolverTable ==
    LET type == resolved.swarm.schedule_type
        expr == resolved.swarm.cron_expression
    IN  resolved.done
        => resolved.result =
             IF ~Present(type) THEN <<"None">>
             ELSE IF expr # <<"None">> /\ Len(expr) > 0 THEN expr
             ELSE IF type = "daily" THEN <<"0", " ", "9", " ", "*", " ", "*", " ", "*">>
             ELSE IF type = "weekly" THEN <<"0", " ", "9", " ", "*", " ", "*", " ", "1">>
             ELSE IF type = "monthly" THEN <<"0", " ", "9", " ", "1", " ", "*", " ", "*">>
             ELSE <<"None">>

\* A monthly swarm whose own expression, the weekly default, was returned in
\* place of the monthly default.
C11_Witness ==
    /\ resolved.done
    /\ resolved.swarm.schedule_type = "monthly"
    /\ resolved.swarm.cron_expression = DefaultWeekly
    /\ resolved.result = DefaultWeekly

\* ------------------------------------------------------------------------
\* C12
\* ------------------------------------------------------------------------
\* Minutes from 2024-01-01 00:00 to an instant of 2024.
MinutesOf2024(month, day, hour, minute) ==
    LET before == <<0, 31, 60, 91, 121, 152, 182, 213, 244, 274, 305, 335>>
    IN  ((before[month] + day - 1) * 24 + hour) * 60 + minute

\* The slot of a ledger key "YYYY-MM-DD-HH-MM:id", in minutes.
SlotMinutes(k) ==
    MinutesOf2024(DecimalValue(SubSeq(k, 6, 7)), DecimalValue(SubSeq(k, 9, 10)),
                  DecimalValue(SubSeq(k, 12, 13)), DecimalValue(SubSeq(k, 15, 16)))

NowMinutes(dt) == MinutesOf2024(dt.month, dt.day, dt.hour, dt.minute)

\* The current hour prefix YYYY-MM-DD-HH and today's date YYYY-MM-DD of
\* the latest evaluation.
LastHourPrefix == strftime_hour(LastNow)

LastDate == Prefix(LastHourPrefix, 10)

\* C12: in every evaluation the prune step removes each entry of the
\* incoming ledger whose slot is at least two hours before now and whose
\* date is lexically smaller than today's date, and keeps each entry whose
\* key starts with the current hour prefix.
C12_PruneStep ==
    CycleRan
    => \A k \in last.cursor_in :
          /\ (/\ NowMinutes(LastNow) - SlotMinutes(k) >= 120
              /\ StrGreater(LastDate, Prefix(k, 10)))
             => k \notin last.pruned
          /\ StartsWith(k, LastHourPrefix) => k \in last.pruned

\* An evaluation whose prune step removed an entry of an earlier date.
C12_Witness ==
    /\ CycleRan
    /\ \E k \in last.cursor_in :
          /\ NowMinutes(LastNow) - SlotMinutes(k) >= 120
          /\ StrGreater(LastDate, Prefix(k, 10))
          /\ k \notin last.pruned

\* ------------------------------------------------------------------------
\* C13
\* ------------------------------------------------------------------------
\* C13: after the prune step of an evaluation the ledger holds only entries
\* of the current hour and entries whose date sorts after today's date.
C13_OnlyCurrentHourOrLaterDate ==
    CycleRan
    => \A k \in last.pruned :
          \/ StartsWith(k, LastHourPrefix)
          \/ StrGreater(Prefix(k, 10), LastDate)

\* ------------------------------------------------------------------------
\* C14
\* ------------------------------------------------------------------------
\* C14: the evaluation that follows a killed evaluation starts from the
\* cursor the killed one was given, and it triggers no swarm for a slot in
\* which a trigger of that swarm has already succeeded.
C14_KilledCycleSafe ==
    [][(/\ last.result = "killed"
        /\ ncycles' = ncycles + 1)
       => (/\ last'.cursor_in = last.cursor_in
           /\ \A n \in 1..Len(last'.calls) :
                last'.calls[n].ok => last'.calls[n].key \notin DOMAIN succeeded)]_vars

SucceededKeys ==
    {last.calls[n].key : n \in {m \in 1..Len(last.calls) : last.calls[m].ok}}

\* C16: an evaluation whose fetch succeeded has written its cursor, also
\* when it triggered nothing, and the cursor written is the pruned incoming
\* ledger plus exactly the keys of the calls that succeeded in it.
C16_CursorWrittenOnce ==
    (CycleRan /\ last.fetch_ok)
    => /\ last.wrote
       /\ persisted = last.pruned \cup SucceededKeys

\* ------------------------------------------------------------------------
\* C17
\* ------------------------------------------------------------------------
\* C17: the outcome of an evaluation is success exactly when one of its
\* run_swarm calls succeeded; it is the "no match" skip when the fetch
\* succeeded and no call did; it is the skip with the fetch error when the
\* fetch failed.
C17_Outcome ==
    CycleRan
    => /\ last.result = "success" <=> SucceededKeys # {}
       /\ (last.fetch_ok /\ SucceededKeys = {}) => last.result = "skip_no_match"
       /\ ~last.fetch_ok => last.result = "skip_api_error"

\* ------------------------------------------------------------------------
\* C18
\* ------------------------------------------------------------------------
\* C18: an evaluation whose incoming cursor is a non-empty text that is not
\* JSON ends with the parse error, without fetching the list and without a
\* run_swarm call, and leaves the cursor as it was; an evaluation whose
\* cursor is missing or empty works on the empty ledger.
C18_MalformedCursor ==
    [][(ncycles' = ncycles + 1)
       => (/\ raw \in MalformedTexts
              => /\ last'.result = "JSONDecodeError"
                 /\ ~last'.fetch_ok
                 /\ last'.calls = <<>>
                 /\ succeeded' = succeeded
                 /\ raw' = raw
                 /\ persisted' = persisted
           /\ raw \in {<<"None">>, <<>>}
              => /\ last'.result # "JSONDecodeError"
                 /\ last'.cursor_in = {})]_vars

\* An evaluation that ended with the parse error although its list held a
\* swarm that matched.
C18_Witness ==
    /\ raw \in MalformedTexts
    /\ last.result = "JSONDecodeError"
    /\ \E i \in 1..Len(registry) : Matching(registry[i], LastNow)

\* ------------------------------------------------------------------------
\* C19
\* ------------------------------------------------------------------------
\* C19: from the empty cursor and with a clock that never goes back, after
\* every evaluation that ran to its end every key of the persisted ledger has
\* the date of that evaluation's instant, so the ledger never holds entries
\* of two dates.
C19_LedgerOfOneDay ==
    /\ (CycleRan /\ last.wrote)
       => \A k \in persisted : Prefix(k, 10) = LastDate
    /\ \A k, j \in persisted : Prefix(k, 10) = Prefix(j, 10)

\* An evaluation that ran to its end on a new day, dropped the entries of
\* the day before and added one of its own.
C19_Witness ==
    /\ CycleRan
    /\ last.wrote
    /\ persisted # {}
    /\ \E k \in last.cursor_in : StrGreater(LastDate, Prefix(k, 10))

\* ------------------------------------------------------------------------
\* C20
\* ------------------------------------------------------------------------
\* C20: no evaluation calls run_swarm for a swarm whose schedule_type is
\* "none", whatever its cron_expression.
C20_NoneNeverTriggered ==
    \A n \in 1..Len(last.calls) :
        last.swarms[last.calls[n].pos].schedule_type # "none"

====
